---- MODULE Spec2Model ----
(***************************************************************************)
(* A model of mortimer's request dispatch and response-state engine:       *)
(* Router (ordered regex routes), RequestHandler (status, header list,     *)
(* session), WebApplication.__call__ (dispatch and error mapping) and      *)
(* util.code_to_status.                                                    *)
(*                                                                         *)
(* Strings that the code only compares or passes on are TLA+ strings.      *)
(* Request paths are sequences of one-character strings so that regular    *)
(* expression matching can be computed.  A Python value that may be an int *)
(* or a str (the handler's status) is a tagged record.                     *)
(***************************************************************************)
EXTENDS Integers, Sequences, FiniteSets, TLC

\* ------------------------------------------------------------------------
\* Bounds of the model
\* ------------------------------------------------------------------------
MaxRoutes == 2      \* longest route table
MaxPathLen == 3     \* longest request path, in characters
MaxCalls == 4       \* most header calls made on one handler object
MaxArgLen == 3      \* longest query string, form body or cookie header, in characters

Alphabet == {"/", "7"}
Digits == {"0", "1", "2", "3", "4", "5", "6", "7", "8", "9"}

Paths == UNION {[1..n -> Alphabet] : n \in 0..MaxPathLen}
Methods == {"GET", "POST"}

None == "None"

\* ------------------------------------------------------------------------
\* Regular expressions (the subset of re the routes use)
\*   a pattern is a sequence of atoms, optionally closed by `$';
\*   an atom is one character class, optionally in a capture group,
\*   optionally followed by `?'.
\* ------------------------------------------------------------------------
Lit(c) == [cls |-> {c}, opt |-> FALSE, cap |-> FALSE]
OptLit(c) == [cls |-> {c}, opt |-> TRUE, cap |-> FALSE]
CapDigit == [cls |-> Digits, opt |-> FALSE, cap |-> TRUE]
CapLit(c) == [cls |-> {c}, opt |-> FALSE, cap |-> TRUE]

PatRoot == [src |-> "/$", atoms |-> <<Lit("/")>>, end |-> TRUE]
PatSlash == [src |-> "/", atoms |-> <<Lit("/")>>, end |-> FALSE]
PatSeven == [src |-> "/7/?$", atoms |-> <<Lit("/"), Lit("7"), OptLit("/")>>, end |-> TRUE]
PatDigit == [src |-> "/(\\d)/?", atoms |-> <<Lit("/"), CapDigit, OptLit("/")>>, end |-> FALSE]
PatTwo == [src |-> "(/)(\\d)", atoms |-> <<CapLit("/"), CapDigit>>, end |-> FALSE]

NoMatch == [matched |-> FALSE, groups |-> <<>>]

\* pattern.match(s) tried from atom i of the pattern and position j of s:
\* greedy, backtracking, anchored at the start only (re.match).
RECURSIVE MatchFrom(_, _, _, _)
MatchFrom(p, i, s, j) ==
    IF i > Len(p.atoms)
    THEN IF p.end /\ j # Len(s) + 1 THEN NoMatch
         ELSE [matched |-> TRUE, groups |-> <<>>]
    ELSE LET a == p.atoms[i]
             take == IF j <= Len(s) /\ s[j] \in a.cls
                     THEN MatchFrom(p, i + 1, s, j + 1)
                     ELSE NoMatch
             skip == IF a.opt THEN MatchFrom(p, i + 1, s, j) ELSE NoMatch
         IN  IF take.matched
             THEN [matched |-> TRUE,
                   groups |-> (IF a.cap THEN <<s[j]>> ELSE <<>>) \o take.groups]
             ELSE IF skip.matched
             THEN [matched |-> TRUE,
                   groups |-> (IF a.cap THEN <<None>> ELSE <<>>) \o skip.groups]
             ELSE NoMatch

\* regex.match(uri); m.groups()
re_match(p, s) == MatchFrom(p, 1, s, 1)

\* ------------------------------------------------------------------------
\* Handler classes an application registers (subclasses of RequestHandler)
\*   init  : "inherited"    - RequestHandler.init_request is used
\*           "session"      - the subclass overrides init_request, sets the
\*                            default header list and creates its session
\*                            with session.Session()
\*           "headers_only" - the subclass overrides init_request, sets the
\*                            default header list and creates no session
\*   verbs : the verb methods the class defines
\*   a verb method takes `arity' positional arguments (-1: *args) and either
\*   returns a body or raises; before returning it may write a session key
\*   or call self.redirect
\* ------------------------------------------------------------------------
Absent == [kind |-> "absent", arity |-> 0, body |-> "", exc |-> None, status |-> 0]
Returns(n, b) == [kind |-> "return", arity |-> n, body |-> b, exc |-> None, status |-> 0]
Raises(n, e, s) == [kind |-> "raise", arity |-> n, body |-> "", exc |-> e, status |-> s]
\* a verb method that does self.session[k] = v and returns b
Writes(n, b, k, v) ==
    [kind |-> "write", arity |-> n, body |-> b, exc |-> None, status |-> 0,
     key |-> k, val |-> v]
\* a verb method that does `return self.session.get(k, '')'
Reads(n, k) ==
    [kind |-> "read", arity |-> n, body |-> "", exc |-> None, status |-> 0,
     key |-> k]
\* a verb method that does `return self.redirect(loc)'
Redirects(n, loc) ==
    [kind |-> "redirect", arity |-> n, body |-> "", exc |-> None, status |-> 0,
     loc |-> loc]

HelloBody == "Hello, World"

\* method.lower() of the request methods
lower(m) == IF m = "GET" THEN "get" ELSE IF m = "POST" THEN "post" ELSE m
VerbNames == {lower(m) : m \in Methods}

HelloWorldController ==
    [name |-> "HelloWorldController", init |-> "inherited",
     verbs |-> [v \in VerbNames |-> IF v = "get" THEN Returns(0, HelloBody) ELSE Absent]]
PlainController ==
    [name |-> "PlainController", init |-> "headers_only",
     verbs |-> [v \in VerbNames |-> IF v = "get" THEN Returns(0, HelloBody) ELSE Absent]]
EchoController ==
    [name |-> "EchoController", init |-> "headers_only",
     verbs |-> [v \in VerbNames |-> IF v = "get" THEN Returns(-1, "echo") ELSE Absent]]
UnavailableController ==
    [name |-> "UnavailableController", init |-> "headers_only",
     verbs |-> [v \in VerbNames |->
                  IF v = "get" THEN Raises(0, "HTTPError", 503) ELSE Absent]]
BrokenController ==
    [name |-> "BrokenController", init |-> "headers_only",
     verbs |-> [v \in VerbNames |->
                  IF v = "get" THEN Raises(0, "ValueError", 0)
                  ELSE Raises(0, "AttributeError", 0)]]
\* a route may be bound to None, as the router tests do
NoneObj == [name |-> "None", init |-> "inherited", verbs |-> [v \in VerbNames |-> Absent]]

\* the library's own error handler class: it inherits init_request
ErrorRequestHandlerClass ==
    [name |-> "ErrorRequestHandler", init |-> "inherited", verbs |-> [v \in VerbNames |-> Absent]]

\* the route tuples an application may register
RouteCatalogue ==
    { <<PatRoot, HelloWorldController>>,
      <<PatSlash, PlainController>>,
      <<PatSeven, UnavailableController>>,
      <<PatSeven, BrokenController>>,
      <<PatDigit, EchoController>>,
      <<PatTwo, EchoController>>,
      <<PatDigit, NoneObj>> }

\* ------------------------------------------------------------------------
\* Router
\*   a stored route is [pattern, obj, compiled]: compiled = FALSE while the
\*   pattern is still the str the caller passed, TRUE once re.compile has
\*   replaced it (re.compile of a compiled pattern returns it unchanged)
\* ------------------------------------------------------------------------
RouteTuple(t) == [pattern |-> t[1], obj |-> t[2], compiled |-> FALSE]
Compiled(t) == [pattern |-> t[1], obj |-> t[2], compiled |-> TRUE]

compile_routes(rs) == [i \in 1..Len(rs) |-> [rs[i] EXCEPT !.compiled = TRUE]]

add_route(rs, t) == compile_routes(Append(rs, RouteTuple(t)))

RECURSIVE AddEach(_, _)
AddEach(rs, L) == IF L = <<>> THEN rs ELSE AddEach(add_route(rs, Head(L)), Tail(L))

\* add_route_list, were it to set the route list instead of extending it
add_route_list_replace(rs, L) == compile_routes(AddEach(<<>>, L))

add_route_list(rs, L) == compile_routes(AddEach(rs, L))

NotFound == [kind |-> "none", obj |-> NoneObj, groups |-> <<>>, exc |-> None]

\* the for loop of find_route from index i on
RECURSIVE FindFrom(_, _, _)
FindFrom(rs, uri, i) ==
    IF i > Len(rs) THEN NotFound
    ELSE IF ~rs[i].compiled
    THEN [kind |-> "raise", obj |-> NoneObj, groups |-> <<>>, exc |-> "AttributeError"]
    ELSE LET m == re_match(rs[i].pattern, uri)
         IN  IF m.matched
             THEN [kind |-> "found", obj |-> rs[i].obj, groups |-> m.groups, exc |-> None]
             ELSE FindFrom(rs, uri, i + 1)

\* find_route, were the loop to keep going after a match (last match wins)
RECURSIVE FindLastFrom(_, _, _)
FindLastFrom(rs, uri, i) ==
    IF i < 1 THEN NotFound
    ELSE LET m == re_match(rs[i].pattern, uri)
         IN  IF m.matched
             THEN [kind |-> "found", obj |-> rs[i].obj, groups |-> m.groups, exc |-> None]
             ELSE FindLastFrom(rs, uri, i - 1)

find_route_last(rs, uri) == FindLastFrom(rs, uri, Len(rs))

\* find_route, were it to raise HTTPError instead of returning None
find_route_raising(rs, uri) ==
    LET r == FindFrom(rs, uri, 1)
    IN  IF r.kind = "none" THEN [r EXCEPT !.kind = "raise", !.exc = "HTTPError"] ELSE r

find_route(rs, uri) == FindFrom(rs, uri, 1)

\* ------------------------------------------------------------------------
\* util.code_to_status
\* ------------------------------------------------------------------------
IntStatus(n) == [t |-> "int", i |-> n, s |-> ""]
StrStatus(x) == [t |-> "str", i |-> 0, s |-> x]

\* httplib.responses, restricted to the codes the model uses
Responses ==
    [c \in {200, 302, 403, 404, 500, 503} |->
        CASE c = 200 -> "OK"
          [] c = 302 -> "Found"
          [] c = 403 -> "Forbidden"
          [] c = 404 -> "Not Found"
          [] c = 500 -> "Internal Server Error"
          [] c = 503 -> "Service Unavailable"]

\* httplib.responses.get(code), formatted by %s
responses_get(code) ==
    IF code.t = "int" /\ code.i \in DOMAIN Responses THEN Responses[code.i] ELSE "None"

str(code) == IF code.t = "int" THEN ToString(code.i) ELSE code.s

code_to_status(code) == str(code) \o " " \o responses_get(code)

\* ------------------------------------------------------------------------
\* Session (a dict subclass) and the session stores
\*   a Session object is [exists, dirty, deleted, session_id, data]; data is
\*   the dict content, a set of <<key, value>> pairs with one pair per key
\*   a Python value handed to Session.__init__ as `data' is
\*     PyNone, PyMapping(items) (a dict or a Session) or PyObject (an object
\*     that is truthy, has no keys() and is not iterable: a RequestHandler,
\*     a number)
\* ------------------------------------------------------------------------
PyNone == [t |-> "None", items |-> {}]
PyObject == [t |-> "object", items |-> {}]
PyMapping(items) == [t |-> "mapping", items |-> items]

\* bool(x)
truthy(x) == x.t = "object" \/ (x.t = "mapping" /\ x.items # {})

\* self.session = None
NoSession == [exists |-> FALSE, dirty |-> FALSE, deleted |-> FALSE,
              session_id |-> None, data |-> {}]

\* ids gen_session_id may return (md5 hex digests of the clock and
\* random.random()), and one of them
GenIds == {"md5-1", "md5-2"}
FreshId == "md5-1"

HasKey(items, k) == \E e \in items : e[1] = k
Without(items, k) == {e \in items : e[1] # k}

\* dict.update(self, other) for a mapping `other'
dict_update(items, other) ==
    {e \in items : ~HasKey(other, e[1])} \cup other

\* Session.__init__(data, session_id); rnd is what gen_session_id would return
Session_init(data, session_id, rnd) ==
    IF truthy(data) /\ data.t = "object"
    THEN \* dict.update(obj): TypeError, 'obj' object is not iterable
         [raised |-> TRUE, exc |-> "TypeError", sess |-> NoSession]
    ELSE [raised |-> FALSE, exc |-> None,
          sess |-> [exists |-> TRUE, dirty |-> FALSE, deleted |-> FALSE,
                    session_id |-> IF session_id = None \/ session_id = ""
                                   THEN rnd ELSE session_id,
                    data |-> IF truthy(data) THEN dict_update({}, data.items) ELSE {}]]

\* Session.__setitem__(key, value)
Session_setitem(sess, k, v) ==
    [sess EXCEPT !.dirty = TRUE, !.data = Without(@, k) \cup {<<k, v>>}]

\* del session[key]: dict.__delitem__, which Session does not override
Session_delitem(sess, k) ==
    IF HasKey(sess.data, k)
    THEN [raised |-> FALSE, exc |-> None, sess |-> [sess EXCEPT !.data = Without(@, k)]]
    ELSE [raised |-> TRUE, exc |-> "KeyError", sess |-> sess]

\* session.update({key: value}): dict.update, which Session does not override
Session_update(sess, k, v) == [sess EXCEPT !.data = dict_update(@, {<<k, v>>})]

\* session.clear(): dict.clear, which Session does not override
Session_clear(sess) == [sess EXCEPT !.data = {}]

\* a serialized blob: a pickle of a Python value, bytes that are no pickle,
\* or the empty string
Pickle(x) == [t |-> "pickle", obj |-> x]
Garbage == [t |-> "garbage", obj |-> PyNone]
EmptyBlob == [t |-> "empty", obj |-> PyNone]

\* cPickle.dumps(session), were only the instance attributes pickled
cPickle_dumps_attrs(sess) == Pickle(PyMapping({}))

\* cPickle.dumps(session): the pickle of a dict subclass instance holds its
\* items (the attributes it also holds are not read back by Session.load)
cPickle_dumps(sess) == Pickle(PyMapping(sess.data))

\* cPickle.loads(blob)
cPickle_loads(blob) ==
    IF blob.t = "pickle" THEN [raised |-> FALSE, exc |-> None, obj |-> blob.obj]
    ELSE IF blob.t = "empty" THEN [raised |-> TRUE, exc |-> "EOFError", obj |-> PyNone]
    ELSE [raised |-> TRUE, exc |-> "UnpicklingError", obj |-> PyNone]

\* a store is [kind, files]:
\*   "None"  no store object (the default store=None)
\*   "dummy" DummyStore
\*   "file"  FileStore on an existing directory; files is a set of
\*           <<session id, blob>> pairs, one per file
\*   "nodir" FileStore whose path is not an existing directory
NoStore == [kind |-> "None", files |-> {}]
DummyStore == [kind |-> "dummy", files |-> {}]
FileStore(files) == [kind |-> "file", files |-> files]
MissingDirStore == [kind |-> "nodir", files |-> {}]

\* store.save(session_id, data); calls is the number of save calls the store
\* object received
store_save(store, id, blob) ==
    IF store.kind = "None"
    THEN [raised |-> TRUE, exc |-> "AttributeError", store |-> store, calls |-> 0]
    ELSE IF store.kind = "dummy"
    THEN [raised |-> FALSE, exc |-> None, store |-> store, calls |-> 1]
    ELSE IF store.kind = "nodir"
    THEN [raised |-> TRUE, exc |-> "IOError", store |-> store, calls |-> 1]
    ELSE [raised |-> FALSE, exc |-> None, calls |-> 1,
          store |-> [store EXCEPT !.files = Without(@, id) \cup {<<id, blob>>}]]

\* store.load(session_id)
store_load(store, id) ==
    IF store.kind = "None"
    THEN [raised |-> TRUE, exc |-> "AttributeError", blob |-> EmptyBlob]
    ELSE IF store.kind = "dummy"
    THEN [raised |-> FALSE, exc |-> None, blob |-> EmptyBlob]
    ELSE IF store.kind = "file" /\ HasKey(store.files, id)
    THEN [raised |-> FALSE, exc |-> None,
          blob |-> (CHOOSE e \in store.files : e[1] = id)[2]]
    ELSE [raised |-> TRUE, exc |-> "IOError", blob |-> EmptyBlob]

\* Session.save(store)
Session_save(sess, store) ==
    IF ~sess.dirty
    THEN [raised |-> FALSE, exc |-> None, sess |-> sess, store |-> store, calls |-> 0]
    ELSE LET clean == [sess EXCEPT !.dirty = FALSE]
             w == store_save(store, sess.session_id, cPickle_dumps(clean))
         IN  [raised |-> w.raised, exc |-> w.exc, sess |-> clean,
              store |-> w.store, calls |-> w.calls]

\* Session.load(session_id, store), were its body not inside try/except
Session_load_unguarded(session_id, store, rnd) ==
    LET l == store_load(store, session_id)
        d == cPickle_loads(l.blob)
        n == Session_init(d.obj, session_id, rnd)
    IN  IF l.raised THEN [raised |-> TRUE, exc |-> l.exc, sess |-> NoSession]
        ELSE IF d.raised THEN [raised |-> TRUE, exc |-> d.exc, sess |-> NoSession]
        ELSE n

\* Session.load(session_id, store); rnd is what gen_session_id would return
Session_load(session_id, store, rnd) ==
    LET l == store_load(store, session_id)
        d == cPickle_loads(l.blob)
        n == Session_init(d.obj, session_id, rnd)
    IN  IF l.raised \/ d.raised \/ n.raised
        THEN \* except: return Session(session_id=session_id)
             Session_init(PyNone, session_id, rnd)
        ELSE n

\* ------------------------------------------------------------------------
\* RequestHandler
\*   an object is [status, headers, session]; headers is a sequence of
\*   <<name, value>> pairs
\* ------------------------------------------------------------------------
DefaultHeaders == << <<"Content-type", "text/html; charset=UTF-8">> >>

\* rnd is what gen_session_id would return
init_request(cls, h, rnd) ==
    IF cls.init \in {"inherited", "session"}
    THEN LET s == Session_init(IF cls.init = "inherited" THEN PyObject ELSE PyNone,
                               None, rnd)
         IN  IF s.raised THEN [raised |-> TRUE, exc |-> s.exc, obj |-> h]
             ELSE [raised |-> FALSE, exc |-> None,
                   obj |-> [h EXCEPT !.session = s.sess, !.headers = DefaultHeaders]]
    ELSE [raised |-> FALSE, exc |-> None, obj |-> [h EXCEPT !.headers = DefaultHeaders]]

RequestHandler_init(cls, rnd) ==
    init_request(cls, [status |-> IntStatus(200), headers |-> <<>>, session |-> NoSession],
                 rnd)

\* list.remove(x): drop the first element equal to x
RECURSIVE list_remove(_, _)
list_remove(hs, x) ==
    IF hs = <<>> THEN <<>>
    ELSE IF Head(hs) = x THEN Tail(hs)
    ELSE <<Head(hs)>> \o list_remove(Tail(hs), x)

\* `for header in self.headers: if header[0] == name: self.headers.remove(header)'
\* the list iterator keeps an index into the list it is shrinking
RECURSIVE RemoveLoop(_, _, _)
RemoveLoop(hs, name, i) ==
    IF i > Len(hs) THEN hs
    ELSE IF hs[i][1] = name THEN RemoveLoop(list_remove(hs, hs[i]), name, i + 1)
    ELSE RemoveLoop(hs, name, i + 1)

\* add_header, were it to append without removing the previous entry
add_header_append(hs, name, val) == Append(hs, <<name, val>>)

add_header(hs, name, val) ==
    LET h1 == IF name = "Set-Cookie" THEN Append(hs, <<name, val>>) ELSE hs
    IN  Append(RemoveLoop(h1, name, 1), <<name, val>>)

set_content_type(hs, ctype) == add_header(hs, "Content-type", ctype)

\* the cookie string set_cookie builds; "" stands for a falsy argument
cookie_string(data, expires, path, domain) ==
    data \o (IF expires # "" THEN "; expires=" \o expires ELSE "")
         \o (IF path # "" THEN "; path=" \o path ELSE "")
         \o (IF domain # "" THEN "; domain=" \o domain ELSE "")

set_cookie(hs, data, expires, path, domain) ==
    add_header(hs, "Set-Cookie", cookie_string(data, expires, path, domain))

\* RequestHandler.set_status(status) on handler object h
set_status(h, status) == [h EXCEPT !.status = status]

\* RequestHandler.redirect(loc) on handler object h
redirect(h, loc) ==
    [obj |-> [set_status(h, StrStatus("302 FOUND"))
                EXCEPT !.headers = add_header(@, "Location", loc)],
     ret |-> ""]

\* dict.get(k, default)
dict_get(items, k, default) ==
    IF HasKey(items, k) THEN (CHOOSE e \in items : e[1] = k)[2] ELSE default

\* what the body of verb method m does to handler object h before it returns
verb_effect(m, h) ==
    IF m.kind = "write"
    THEN IF h.session.exists
         THEN [raised |-> FALSE, exc |-> None, data |-> m.body,
               obj |-> [h EXCEPT !.session = Session_setitem(@, m.key, m.val)]]
         ELSE \* None[k] = v
              [raised |-> TRUE, exc |-> "TypeError", data |-> "", obj |-> h]
    ELSE IF m.kind = "read"
    THEN IF h.session.exists
         THEN \* a dict read: the session object holds no store to consult
              [raised |-> FALSE, exc |-> None, obj |-> h,
               data |-> dict_get(h.session.data, m.key, "")]
         ELSE \* None.get
              [raised |-> TRUE, exc |-> "AttributeError", data |-> "", obj |-> h]
    ELSE IF m.kind = "redirect"
    THEN LET r == redirect(h, m.loc)
         IN  [raised |-> FALSE, exc |-> None, data |-> r.ret, obj |-> r.obj]
    ELSE [raised |-> FALSE, exc |-> None, data |-> m.body, obj |-> h]

\* handler(*args, **kwargs), were the captured groups not passed on
call_verb_noargs(m, args) ==
    LET r == [raised |-> TRUE, exc |-> None, status |-> 0, data |-> "",
              invoked |-> FALSE, verbArgs |-> <<>>]
    IN  IF m.arity # -1 /\ m.arity # 0
        THEN [r EXCEPT !.exc = "TypeError"]
        ELSE IF m.kind = "raise"
        THEN [r EXCEPT !.exc = m.exc, !.status = m.status, !.invoked = TRUE]
        ELSE [r EXCEPT !.raised = FALSE, !.data = m.body, !.invoked = TRUE]

\* data = handler(*args, **kwargs): the verb method m called with args
call_verb(m, args) ==
    LET r == [raised |-> TRUE, exc |-> None, status |-> 0, data |-> "",
              invoked |-> FALSE, verbArgs |-> <<>>]
    IN  IF m.arity # -1 /\ m.arity # Len(args)
        THEN [r EXCEPT !.exc = "TypeError"]
        ELSE IF m.kind = "raise"
        THEN [r EXCEPT !.exc = m.exc, !.status = m.status, !.invoked = TRUE,
                       !.verbArgs = args]
        ELSE [r EXCEPT !.raised = FALSE, !.data = m.body, !.invoked = TRUE,
                       !.verbArgs = args]

\* the end of execute, were self.session.save() called before the verb method
execute_return_save_first(b1, g, data, sv) ==
    LET b2 == [b1 EXCEPT !.obj = [g EXCEPT !.session = sv.sess],
                         !.trace = IF g.session.exists THEN <<"save">> \o @ ELSE @]
    IN  IF sv.raised
        THEN [b2 EXCEPT !.exc = sv.exc]
        ELSE [b2 EXCEPT !.raised = FALSE, !.ret = <<data>>]

\* the end of execute: the verb method left handler object g and returned
\* data, and self.session.save() had the result sv
execute_return(b1, g, data, sv) ==
    LET b2 == [b1 EXCEPT !.obj = [g EXCEPT !.session = sv.sess],
                         !.trace = IF g.session.exists THEN @ \o <<"save">> ELSE @]
    IN  IF sv.raised
        THEN [b2 EXCEPT !.exc = sv.exc]
        ELSE [b2 EXCEPT !.raised = FALSE, !.ret = <<data>>]

\* execute from data = handler(*args, **kwargs) on: v is the call of the
\* verb method and e what its body did to the handler object
execute_save(base, v, e) ==
    LET b1 == [base EXCEPT !.invoked = v.invoked, !.verbArgs = v.verbArgs,
                           !.trace = IF v.invoked THEN <<"verb">> ELSE <<>>]
    IN  IF v.raised
        THEN [b1 EXCEPT !.exc = v.exc, !.status = v.status]
        ELSE IF e.raised
        THEN [b1 EXCEPT !.exc = e.exc]
        ELSE execute_return(b1, e.obj, e.data,
                 \* self.session.save(): no store is passed
                 IF e.obj.session.exists THEN Session_save(e.obj.session, NoStore)
                 ELSE [raised |-> FALSE, exc |-> None, sess |-> e.obj.session])

\* execute with m = getattr(self, method.lower()), "absent" if there is none
execute_verb(m, h, args) ==
    LET base == [raised |-> TRUE, exc |-> None, status |-> 0, obj |-> h, ret |-> <<>>,
                 invoked |-> FALSE, verbArgs |-> <<>>, trace |-> <<>>]
    IN  IF m.kind = "absent"
        THEN [base EXCEPT !.exc = "AttributeError"]
        ELSE execute_save(base, call_verb(m, args), verb_effect(m, h))

\* RequestHandler.execute(*args) on handler object h of class cls
execute(cls, h, method, args) == execute_verb(cls.verbs[lower(method)], h, args)

\* ------------------------------------------------------------------------
\* ErrorRequestHandler
\* ------------------------------------------------------------------------
ErrorRequestHandler_init(status, rnd) ==
    LET r == RequestHandler_init(ErrorRequestHandlerClass, rnd)
    IN  IF r.raised THEN r
        ELSE [r EXCEPT !.obj = [status |-> status,
                                headers |-> set_content_type(r.obj.headers, "text/plain"),
                                session |-> r.obj.session]]

ErrorRequestHandler_execute(h) == code_to_status(h.status)

\* ------------------------------------------------------------------------
\* WebApplication
\*   the outcome of one __call__:
\*     outcome   "returned" or "raised" (an exception left __call__)
\*     caught    the exception the try block raised, None if it raised none
\*     exc       the exception that left __call__
\*     callbacks the (status, headers) pairs handed to the start callback
\*     body      what the returned iterator yields: the items of a list, or
\*               the characters of a str
\*     session   the session of the handler the try block constructed, as
\*               the try block left it
\* ------------------------------------------------------------------------
NoBody == [kind |-> "none", items |-> <<>>, text |-> ""]
ListBody(l) == [kind |-> "list", items |-> l, text |-> ""]
StrBody(x) == [kind |-> "chars", items |-> <<>>, text |-> x]

\* WebApplication.find_route
WebApplication_find_route(rs, uri) ==
    LET r == find_route(rs, uri)
    IN  IF r.kind = "none" THEN [r EXCEPT !.kind = "raise", !.exc = "HTTPError"] ELSE r


\* the try block once handler.execute(*args) gave x
TryExecute(base, fr, x) ==
    LET b2 == [base EXCEPT !.trace = @ \o <<"construct">> \o x.trace,
                           !.handler = fr.obj.name,
                           !.invoked = x.invoked,
                           !.verbArgs = x.verbArgs,
                           !.session = x.obj.session]
    IN  IF x.raised
        THEN [b2 EXCEPT !.exc = x.exc, !.status = x.status]
        ELSE [b2 EXCEPT !.raised = FALSE,
                        !.callbacks = << [status |-> code_to_status(x.obj.status),
                                          headers |-> x.obj.headers] >>,
                        !.body = ListBody(x.ret),
                        !.trace = @ \o <<"callback", "return">>]

\* the try block once handler = obj(self, env) gave c
TryConstruct(base, fr, c, env) ==
    IF c.raised
    THEN [base EXCEPT !.exc = c.exc, !.trace = @ \o <<"construct">>,
                      !.handler = fr.obj.name]
    ELSE TryExecute(base, fr, execute(fr.obj, c.obj, env.REQUEST_METHOD, fr.groups))

\* the try block once self.find_route(uri) gave fr
TryRoute(fr, env, rnd) ==
    LET base == [raised |-> TRUE, exc |-> None, status |-> 0, callbacks |-> <<>>,
                 body |-> NoBody, invoked |-> FALSE, verbArgs |-> <<>>,
                 trace |-> <<"find_route">>, handler |-> NoneObj.name,
                 session |-> NoSession]
    IN  IF fr.kind = "raise"
        THEN [base EXCEPT !.exc = fr.exc, !.status = 404]
        ELSE IF fr.obj = NoneObj
        THEN [base EXCEPT !.exc = "TypeError", !.trace = @ \o <<"construct">>]
        ELSE TryConstruct(base, fr, RequestHandler_init(fr.obj, rnd), env)

\* the try block of __call__
TryBlock(rs, env, rnd) == TryRoute(WebApplication_find_route(rs, env.PATH_INFO), env, rnd)

\* an except clause of __call__ once ErrorRequestHandler(..., status) gave e
ErrorResponse(t, e) ==
    LET r == [op |-> "call", outcome |-> "raised", caught |-> t.exc, exc |-> None,
              callbacks |-> <<>>, body |-> NoBody, invoked |-> t.invoked,
              verbArgs |-> t.verbArgs, handler |-> t.handler, session |-> t.session,
              trace |-> t.trace \o <<"print_exc", "error_construct">>]
    IN  IF e.raised THEN [r EXCEPT !.exc = e.exc]
        ELSE [r EXCEPT !.outcome = "returned",
                       !.callbacks = << [status |-> code_to_status(e.obj.status),
                                         headers |-> e.obj.headers] >>,
                       !.body = StrBody(ErrorRequestHandler_execute(e.obj)),
                       !.trace = @ \o <<"callback", "return">>]

\* an except clause of __call__: build the error page for `status'
ErrorPage(t, status, rnd) ==
    ErrorResponse(t, ErrorRequestHandler_init(IntStatus(status), rnd))

\* __call__ once its try block ended as t
TryExcept(t, rnd) ==
    IF ~t.raised
    THEN [op |-> "call", outcome |-> "returned", caught |-> None, exc |-> None,
          callbacks |-> t.callbacks, body |-> t.body, invoked |-> t.invoked,
          verbArgs |-> t.verbArgs, handler |-> t.handler, session |-> t.session,
          trace |-> t.trace]
    ELSE IF t.exc = "AttributeError" THEN ErrorPage(t, 404, rnd)
    ELSE IF t.exc = "HTTPError" THEN ErrorPage(t, t.status, rnd)
    ELSE ErrorPage(t, 500, rnd)

\* WebApplication.__call__(env, callback)
\* rnd is what gen_session_id would return during the call
call(rs, env, rnd) == TryExcept(TryBlock(rs, env, rnd), rnd)

\* ------------------------------------------------------------------------
\* State
\*   routes : Router.routes of the application's router
\*   last   : the most recent Router / WebApplication call, with its
\*            arguments and what it returned or raised
\*   hnd    : a RequestHandler object whose header methods are being called
\*   calls  : the add_header calls made on hnd since it was constructed, as
\*            <<name, value>> pairs in call order
\*   sess   : a Session object whose methods are being called
\*   store  : the session store those calls are given
\*   written: the <<session id, key, value>> triples that verb methods of
\*            earlier requests wrote into their handler's session
\* ------------------------------------------------------------------------
VARIABLES routes, last, hnd, calls, sess, store, written

vars == <<routes, last, hnd, calls, sess, store, written>>

Envs == [PATH_INFO : Paths, REQUEST_METHOD : Methods]

RouteLists == UNION {[1..n -> RouteCatalogue] : n \in 0..MaxRoutes}

NoHandler == [alive |-> FALSE, cls |-> None, status |-> IntStatus(200),
              headers |-> <<>>, session |-> NoSession]

Init ==
    /\ routes = <<>>
    /\ last = [op |-> "init"]
    /\ hnd = NoHandler
    /\ calls = <<>>
    /\ sess = NoSession
    /\ store = NoStore
    /\ written = {}

\* router.add_route(t)
AddRoute(t) ==
    /\ Len(routes) < MaxRoutes
    /\ routes' = add_route(routes, t)
    /\ last' = [op |-> "add_route", arg |-> <<t>>]
    /\ UNCHANGED <<hnd, calls, sess, store, written>>

\* router.add_route_list(L)
AddRouteList(L) ==
    /\ Len(routes) + Len(L) <= MaxRoutes
    /\ routes' = add_route_list(routes, L)
    /\ last' = [op |-> "add_route_list", arg |-> L]
    /\ UNCHANGED <<hnd, calls, sess, store, written>>

\* router.find_route(uri)
FindRoute(uri) ==
    /\ last' = [op |-> "find_route", uri |-> uri, ret |-> find_route(routes, uri)]
    /\ UNCHANGED <<routes, hnd, calls, sess, store, written>>

\* the state after application(env, callback) gave r
Respond(r, env) ==
    /\ last' = [r EXCEPT !.op = "call"] @@ [env |-> env, prior |-> written]
    /\ written' = written \cup {<<r.session.session_id, e[1], e[2]>> : e \in r.session.data}
    /\ UNCHANGED <<routes, hnd, calls, sess, store>>

\* application(env, callback)
\* rnd is what gen_session_id would return during the call
Dispatch(env, rnd) == Respond(call(routes, env, rnd), env)

Next ==
    \/ \E t \in RouteCatalogue : AddRoute(t)
    \/ \E L \in RouteLists : AddRouteList(L)
    \/ \E uri \in Paths : FindRoute(uri)
    \/ \E env \in Envs : Dispatch(env, FreshId)

Spec == Init /\ [][Next]_vars

\* ------------------------------------------------------------------------
\* The header methods of one handler object
\* ------------------------------------------------------------------------
HandlerClasses ==
    {HelloWorldController, PlainController, EchoController,
     UnavailableController, BrokenController}

HeaderNames == {"Content-type", "X-Frame-Options", "Set-Cookie"}
HeaderValues == {"v1", "v2"}
ContentTypes == {"text/plain"}
CookieData == {"a=1", "b=2"}
CookieExpires == {"", "Thu"}

\* h = cls(application, env)
Construct(cls) ==
    /\ LET c == RequestHandler_init(cls, FreshId)
       IN  hnd' = IF c.raised THEN NoHandler
                  ELSE [alive |-> TRUE, cls |-> cls.name, status |-> c.obj.status,
                        headers |-> c.obj.headers, session |-> c.obj.session]
    /\ calls' = <<>>
    /\ UNCHANGED <<routes, last, sess, store, written>>

\* h.add_header(name, val)
AddHeader(name, val) ==
    /\ hnd.alive
    /\ Len(calls) < MaxCalls
    /\ hnd' = [hnd EXCEPT !.headers = add_header(@, name, val)]
    /\ calls' = Append(calls, <<name, val>>)
    /\ UNCHANGED <<routes, last, sess, store, written>>

\* h.set_content_type(ctype)
SetContentType(ctype) ==
    /\ hnd.alive
    /\ Len(calls) < MaxCalls
    /\ hnd' = [hnd EXCEPT !.headers = set_content_type(@, ctype)]
    /\ calls' = Append(calls, <<"Content-type", ctype>>)
    /\ UNCHANGED <<routes, last, sess, store, written>>

\* h.set_cookie(data, expires, path='/', domain=None)
SetCookie(data, expires) ==
    /\ hnd.alive
    /\ Len(calls) < MaxCalls
    /\ hnd' = [hnd EXCEPT !.headers = set_cookie(@, data, expires, "/", "")]
    /\ calls' = Append(calls, <<"Set-Cookie", cookie_string(data, expires, "/", "")>>)
    /\ UNCHANGED <<routes, last, sess, store, written>>

NextHeaders ==
    \/ \E cls \in HandlerClasses : Construct(cls)
    \/ \E name \in HeaderNames, val \in HeaderValues : AddHeader(name, val)
    \/ \E ctype \in ContentTypes : SetContentType(ctype)
    \/ \E data \in CookieData, expires \in CookieExpires : SetCookie(data, expires)

SpecHeaders == Init /\ [][NextHeaders]_vars

\* ------------------------------------------------------------------------
\* Vocabulary of the properties
\* ------------------------------------------------------------------------
ReasonPhrases == {Responses[c] : c \in DOMAIN Responses} \cup {"None"}

\* the status line consists of the code n, a space and some reason phrase
BeginsWithCode(line, n) == \E ph \in ReasonPhrases : line = ToString(n) \o " " \o ph

\* the positions of routes whose pattern matches uri
Matching(uri) == {i \in 1..Len(routes) : re_match(routes[i].pattern, uri).matched}

Least(S) == CHOOSE i \in S : \A j \in S : i <= j

IsCall == last.op = "call"
IsFind == last.op = "find_route"

Root == <<"/">>

\* the verb method that a request env reaches through the route table
VerbOf(env) == routes[Least(Matching(env.PATH_INFO))].obj.verbs[lower(env.REQUEST_METHOD)]

HasHeader(hs, name, val) == \E i \in 1..Len(hs) : hs[i] = <<name, val>>

\* C1: a GET for "/" that resolves to a handler whose get() returns a body B
\* calls the start callback with "200 OK" and returns an iterator whose first
\* item is B.
C1_HelloWorld ==
    (/\ IsCall
     /\ last.env = [PATH_INFO |-> Root, REQUEST_METHOD |-> "GET"]
     /\ Matching(Root) # {}
     /\ VerbOf(last.env).kind = "return"
     /\ VerbOf(last.env).arity \in {-1, 0})
    => /\ last.outcome = "returned"
       /\ Len(last.callbacks) = 1
       /\ last.callbacks[1].status = "200 OK"
       /\ last.body.kind = "list"
       /\ last.body.items # <<>>
       /\ last.body.items[1] = VerbOf(last.env).body

\* C2: a request, of any method, for a path that no route matches calls the
\* start callback with a 404 status line and returns a non-empty text/plain
\* body.
C2_UnknownPath404 ==
    (IsCall /\ Matching(last.env.PATH_INFO) = {})
    => /\ last.outcome = "returned"
       /\ Len(last.callbacks) = 1
       /\ BeginsWithCode(last.callbacks[1].status, 404)
       /\ HasHeader(last.callbacks[1].headers, "Content-type", "text/plain")
       /\ last.body.kind = "chars"
       /\ last.body.text # ""

\* C3: when the verb method raises HTTPError with status s, the start callback
\* receives a status line beginning with s and the body is the reason-phrase
\* text for s.
C3_HTTPErrorStatus ==
    (IsCall /\ last.invoked /\ last.caught = "HTTPError")
    => LET s == VerbOf(last.env).status
       IN  /\ last.outcome = "returned"
           /\ Len(last.callbacks) = 1
           /\ BeginsWithCode(last.callbacks[1].status, s)
           /\ last.body = StrBody(code_to_status(IntStatus(s)))

\* C4: every __call__ returns a response; no exception leaves it.
C4_NothingEscapes == IsCall => last.outcome = "returned"

\* C5: find_route returns the handler of the first route, in registration
\* order, whose pattern matches the path.
C5_FirstMatchWins ==
    (IsFind /\ Matching(last.uri) # {})
    => /\ last.ret.kind = "found"
       /\ last.ret.obj = routes[Least(Matching(last.uri))].obj

C5_Witness ==
    /\ IsFind
    /\ Cardinality(Matching(last.uri)) = 2
    /\ routes[1].obj # routes[2].obj
    /\ last.ret.kind = "found"
    /\ last.ret.obj = routes[1].obj

\* C6: find_route on an empty table, or for a path no pattern matches,
\* returns None without raising and leaves the route table unchanged.
C6_NotFoundIsNone ==
    [][(last'.op = "find_route"
          /\ \A i \in 1..Len(routes) : ~re_match(routes[i].pattern, last'.uri).matched)
       => (last'.ret = NotFound /\ routes' = routes)]_vars

C6_Witness ==
    /\ IsFind
    /\ routes # <<>>
    /\ Matching(last.uri) = {}
    /\ last.ret.kind = "none"

\* the capture groups of pattern p, in the order they open
CapAtoms(p) == SelectSeq(p.atoms, LAMBDA a : a.cap)

\* g holds one value per capture group of p, in group order: the k-th value
\* is a character of the k-th group's class, or None for a skipped group
GroupsInOrder(p, g) ==
    /\ Len(g) = Len(CapAtoms(p))
    /\ \A k \in 1..Len(g) :
          \/ g[k] \in CapAtoms(p)[k].cls
          \/ (g[k] = None /\ CapAtoms(p)[k].opt)

\* C7: the groups captured by the matching route's pattern are returned by
\* find_route in group order (none when the pattern has no group) and are
\* the positional arguments of the verb method the dispatcher invokes.
C7_GroupsArePositionalArgs ==
    /\ (IsFind /\ last.ret.kind = "found")
       => GroupsInOrder(routes[Least(Matching(last.uri))].pattern, last.ret.groups)
    /\ (IsCall /\ last.invoked)
       => /\ last.verbArgs = find_route(routes, last.env.PATH_INFO).groups
          /\ GroupsInOrder(routes[Least(Matching(last.env.PATH_INFO))].pattern,
                           last.verbArgs)

C7_Witness ==
    /\ IsCall
    /\ last.invoked
    /\ last.outcome = "returned"
    /\ last.verbArgs = <<"/", "7">>

Entries(hs, name) == {i \in 1..Len(hs) : hs[i][1] = name}
CallsFor(name) == {i \in 1..Len(calls) : calls[i][1] = name}
Greatest(S) == CHOOSE i \in S : \A j \in S : j <= i

\* C9: for every header name other than Set-Cookie the header list holds at
\* most one entry with that name, and once the name has been set the entry
\* carries the value of the most recent call for it.
C9_SingleValuedHeaders ==
    hnd.alive =>
      \A name \in HeaderNames \ {"Set-Cookie"} :
         /\ Cardinality(Entries(hnd.headers, name)) <= 1
         /\ CallsFor(name) # {}
            => \E i \in Entries(hnd.headers, name) :
                  hnd.headers[i][2] = calls[Greatest(CallsFor(name))][2]

C9_Witness ==
    /\ hnd.alive
    /\ Cardinality(CallsFor("Content-type")) >= 2
    /\ calls[1] = <<"Content-type", "v1">>
    /\ CallsFor("Set-Cookie") # {}
    /\ Cardinality(Entries(hnd.headers, "Content-type")) = 1
    /\ HasHeader(hnd.headers, "Content-type", "text/plain")

\* C10: adding a Set-Cookie header never removes or replaces an existing
\* Set-Cookie entry: every cookie directive added so far is in the header
\* list.
C10_CookiesAreKept ==
    hnd.alive =>
      \A i \in CallsFor("Set-Cookie") : HasHeader(hnd.headers, "Set-Cookie", calls[i][2])

\* ------------------------------------------------------------------------
\* Requests served one after another by an application whose handlers keep a
\* session or redirect (SpecRequests)
\* ------------------------------------------------------------------------
SessionKey == "user"
SessionValue == "alice"
RedirectTarget == "/login"

SessionWriterController ==
    [name |-> "SessionWriterController", init |-> "session",
     verbs |-> [v \in VerbNames |->
                  IF v = "get" THEN Writes(0, "saved", SessionKey, SessionValue)
                  ELSE Absent]]
SessionReaderController ==
    [name |-> "SessionReaderController", init |-> "session",
     verbs |-> [v \in VerbNames |-> IF v = "get" THEN Reads(0, SessionKey) ELSE Absent]]
SessionIdleController ==
    [name |-> "SessionIdleController", init |-> "session",
     verbs |-> [v \in VerbNames |-> IF v = "get" THEN Returns(0, "idle") ELSE Absent]]
RedirectController ==
    [name |-> "RedirectController", init |-> "headers_only",
     verbs |-> [v \in VerbNames |->
                  IF v = "get" THEN Redirects(0, RedirectTarget) ELSE Absent]]

SessionCatalogue ==
    { <<PatRoot, SessionWriterController>>,
      <<PatRoot, SessionReaderController>>,
      <<PatSeven, SessionIdleController>>,
      <<PatSeven, RedirectController>>,
      <<PatSeven, BrokenController>> }

\* the requests: a path, a method and the session id the client's cookie
\* presents (None: no cookie)
CookieEnvs ==
    [PATH_INFO : {Root, <<"/", "7">>}, REQUEST_METHOD : Methods,
     HTTP_COOKIE : GenIds \cup {None}]

NextRequests ==
    \/ \E t \in SessionCatalogue : AddRoute(t)
    \/ \E env \in CookieEnvs, rnd \in GenIds : Dispatch(env, rnd)

SpecRequests == Init /\ [][NextRequests]_vars

\* C11: a key written to the session during one request is readable from the
\* session of a later request that presents the same session identifier, and
\* that session carries the presented identifier.
C11_SessionPersists ==
    (IsCall /\ last.session.exists)
    => \A w \in last.prior :
          w[1] = last.env.HTTP_COOKIE
          => /\ last.session.session_id = w[1]
             /\ <<w[2], w[3]>> \in last.session.data

\* ------------------------------------------------------------------------
\* The methods of one Session object and a session store (SpecSession)
\* ------------------------------------------------------------------------
Keys == {"user", "cart"}
Values == {"alice"}
SessionIds == GenIds \cup {"stale"}

\* what the store directory may hold before any session is saved
InitFiles ==
    { {}, {<<"stale", Garbage>>}, {<<"stale", EmptyBlob>>},
      {<<"stale", Pickle(PyObject)>>}, {<<"stale", Pickle(PyNone)>>} }

Stores == {NoStore, DummyStore, MissingDirStore} \cup {FileStore(f) : f \in InitFiles}

InitSession ==
    /\ routes = <<>>
    /\ last = [op |-> "init"]
    /\ hnd = NoHandler
    /\ calls = <<>>
    /\ sess = NoSession
    /\ store \in Stores
    /\ written = {}

\* sess = Session()
NewSession(rnd) ==
    /\ sess' = Session_init(PyNone, None, rnd).sess
    /\ last' = [op |-> "Session"]
    /\ UNCHANGED <<routes, hnd, calls, store, written>>

\* sess[k] = v
SetItem(k, v) ==
    /\ sess.exists
    /\ sess' = Session_setitem(sess, k, v)
    /\ last' = [op |-> "setitem", raised |-> FALSE]
    /\ UNCHANGED <<routes, hnd, calls, store, written>>

\* del sess[k]
DelItem(k) ==
    /\ sess.exists
    /\ LET r == Session_delitem(sess, k)
       IN  /\ sess' = r.sess
           /\ last' = [op |-> "delitem", raised |-> r.raised]
    /\ UNCHANGED <<routes, hnd, calls, store, written>>

\* sess.update({k: v})
Update(k, v) ==
    /\ sess.exists
    /\ sess' = Session_update(sess, k, v)
    /\ last' = [op |-> "update", raised |-> FALSE]
    /\ UNCHANGED <<routes, hnd, calls, store, written>>

\* sess.clear()
Clear ==
    /\ sess.exists
    /\ sess' = Session_clear(sess)
    /\ last' = [op |-> "clear", raised |-> FALSE]
    /\ UNCHANGED <<routes, hnd, calls, store, written>>

\* sess.save(store)
Save ==
    /\ sess.exists
    /\ LET r == Session_save(sess, store)
       IN  /\ sess' = r.sess
           /\ store' = r.store
           /\ last' = [op |-> "save", raised |-> r.raised, exc |-> r.exc,
                       calls |-> r.calls, before |-> sess, storeBefore |-> store]
    /\ UNCHANGED <<routes, hnd, calls, written>>

\* sess = Session.load(id, store)
Load(id, rnd) ==
    /\ LET r == Session_load(id, store, rnd)
       IN  /\ sess' = r.sess
           /\ last' = [op |-> "load", id |-> id, raised |-> r.raised, exc |-> r.exc,
                       ret |-> r.sess]
    /\ UNCHANGED <<routes, hnd, calls, store, written>>

NextSession ==
    \/ \E rnd \in GenIds : NewSession(rnd)
    \/ \E k \in Keys, v \in Values : SetItem(k, v)
    \/ \E k \in Keys : DelItem(k)
    \/ \E k \in Keys, v \in Values : Update(k, v)
    \/ Clear
    \/ Save
    \/ \E id \in SessionIds, rnd \in GenIds : Load(id, rnd)

SpecSession == InitSession /\ [][NextSession]_vars

\* the file the store holds for session id
FileOf(st, id) == (CHOOSE e \in st.files : e[1] = id)[2]

\* C12: Session.save writes to the store exactly when the session is dirty:
\* not dirty, no store write; dirty, exactly one blob keyed by the session
\* id is handed to the store, dirty becomes false and a repeated save writes
\* nothing.
C12_SaveIffDirty ==
    last.op = "save" =>
      /\ ~last.before.dirty => (last.calls = 0 /\ ~last.raised /\ store = last.storeBefore)
      /\ last.before.dirty =>
           /\ last.calls = 1
           /\ ~last.raised
           /\ ~sess.dirty
           /\ store.kind = "file" => FileOf(store, sess.session_id) = cPickle_dumps(sess)
           /\ Session_save(sess, store).calls = 0

\* the names a session cookie may go by
SessionCookieNames == {"session_id", "sid"}

\* header value val is a cookie directive carrying session id `id'
CarriesId(val, id) ==
    \E n \in SessionCookieNames, e \in CookieExpires :
        val = cookie_string(n \o "=" \o id, e, "", "")

\* C13: at the end of a request whose verb method made the session dirty, the
\* headers given to the start callback hold exactly one cookie header, and it
\* carries the session id; when the session is not dirty they hold no cookie
\* header.
C13_SessionCookie ==
    (IsCall /\ last.invoked /\ last.session.exists)
    => IF VerbOf(last.env).kind = "write"
       THEN /\ last.outcome = "returned"
            /\ Len(last.callbacks) = 1
            /\ LET hs == last.callbacks[1].headers
               IN  /\ Cardinality(Entries(hs, "Set-Cookie")) = 1
                   /\ \A i \in Entries(hs, "Set-Cookie") :
                          CarriesId(hs[i][2], last.session.session_id)
       ELSE \A i \in 1..Len(last.callbacks) :
                Entries(last.callbacks[i].headers, "Set-Cookie") = {}

\* the store holds, for id, a pickle of a mapping
GoodEntry(st, id) ==
    /\ st.kind = "file"
    /\ HasKey(st.files, id)
    /\ FileOf(st, id).t = "pickle"
    /\ FileOf(st, id).obj.t = "mapping"

\* C14: Session.load of an identifier that has no store entry, or whose blob
\* is corrupt or does not decode to a mapping, does not raise and returns an
\* empty session that is not dirty and carries that identifier.
C14_LoadDegradesToEmpty ==
    (last.op = "load" /\ ~GoodEntry(store, last.id))
    => /\ ~last.raised
       /\ last.ret.exists
       /\ last.ret.data = {}
       /\ ~last.ret.dirty
       /\ last.ret.session_id = last.id

\* a load of a session id whose file is no pickle (C14)
C14_Witness ==
    /\ last.op = "load"
    /\ store.kind = "file"
    /\ HasKey(store.files, last.id)
    /\ FileOf(store, last.id) = Garbage
    /\ last.ret.exists

\* C15: after a dirty session holding the mapping M is saved to a FileStore,
\* loading its identifier from that store gives a session whose mapping is M
\* and whose identifier is the same.
C15_RoundTrip ==
    (last.op = "save" /\ last.before.dirty /\ store.kind = "file")
    => \A rnd \in GenIds :
          LET r == Session_load(last.before.session_id, store, rnd)
          IN  /\ ~r.raised
              /\ r.sess.data = last.before.data
              /\ r.sess.session_id = last.before.session_id

\* a dirty session with two keys has been saved to a FileStore (C15)
C15_Witness ==
    /\ last.op = "save"
    /\ last.before.dirty
    /\ store.kind = "file"
    /\ Cardinality(last.before.data) = 2
    /\ ~last.raised

\* the handler class that a request env reaches through the route table
ClassOf(env) == routes[Least(Matching(env.PATH_INFO))].obj

\* C16: when a route matches and the handler has no method named after the
\* lowercased request verb, the status line begins with 404 and no verb method
\* is invoked.
C16_MissingVerb404 ==
    (/\ IsCall
     /\ Matching(last.env.PATH_INFO) # {}
     /\ ClassOf(last.env) # NoneObj
     /\ VerbOf(last.env).kind = "absent")
    => /\ last.outcome = "returned"
       /\ Len(last.callbacks) = 1
       /\ BeginsWithCode(last.callbacks[1].status, 404)
       /\ ~last.invoked

\* C17: an exception raised while the handler is constructed or its verb
\* method runs, other than the missing verb method and HTTPError, gives a
\* status line beginning with 500 and the generic reason-phrase body.
C17_OtherFault500 ==
    (/\ IsCall
     /\ Matching(last.env.PATH_INFO) # {}
     /\ last.caught \notin {None, "HTTPError"}
     /\ ~(last.caught = "AttributeError" /\ VerbOf(last.env).kind = "absent"))
    => /\ last.outcome = "returned"
       /\ Len(last.callbacks) = 1
       /\ BeginsWithCode(last.callbacks[1].status, 500)
       /\ last.body = StrBody(code_to_status(IntStatus(500)))

\* C18: after the verb method returns redirect(loc), the start callback gets
\* the status line "302 Found" and exactly one Location header, with value
\* loc, and the body is empty.
C18_Redirect ==
    (IsCall /\ last.invoked /\ VerbOf(last.env).kind = "redirect")
    => /\ last.outcome = "returned"
       /\ Len(last.callbacks) = 1
       /\ last.callbacks[1].status = code_to_status(IntStatus(302))
       /\ LET hs == last.callbacks[1].headers
          IN  /\ Cardinality(Entries(hs, "Location")) = 1
              /\ HasHeader(hs, "Location", VerbOf(last.env).loc)
       /\ last.body = ListBody(<<"">>)

\* C20: an operation that changes the session's mapping leaves dirty true.
C20_WritesSetDirty ==
    [][(/\ sess.exists
        /\ last'.op \in {"setitem", "delitem", "update", "clear"}
        /\ sess'.data # sess.data)
       => sess'.dirty]_vars

\* ------------------------------------------------------------------------
\* The parsed-argument accessors of a handler (SpecArgs)
\*   a string is a sequence of characters; an env key is [present, val]
\* ------------------------------------------------------------------------
ArgChars == {"a", "=", "&", "+"}
CookieChars == {"a", "=", ";", " "}

Strings(chars) == UNION {[1..n -> chars] : n \in 0..MaxArgLen}

Missing == [present |-> FALSE, val |-> <<>>]
Key(v) == [present |-> TRUE, val |-> v]

IsPrefix(sep, x) == Len(x) >= Len(sep) /\ SubSeq(x, 1, Len(sep)) = sep

\* x.split(sep), cur being the piece read so far
RECURSIVE SplitFrom(_, _, _)
SplitFrom(x, sep, cur) ==
    IF x = <<>> THEN <<cur>>
    ELSE IF IsPrefix(sep, x)
    THEN <<cur>> \o SplitFrom(SubSeq(x, Len(sep) + 1, Len(x)), sep, <<>>)
    ELSE SplitFrom(Tail(x), sep, Append(cur, Head(x)))

split(x, sep) == SplitFrom(x, sep, <<>>)

\* x.replace('+', ' ')
spc(x) == [i \in 1..Len(x) |-> IF x[i] = "+" THEN " " ELSE x[i]]

\* urllib.unquote(x): a string that holds no '%' is returned as it is, and
\* the strings here hold none
unquote(x) == SelectSeq(x, LAMBDA c : TRUE)

\* the loop of parse_get_vars over the pieces ps
RECURSIVE GetLoop(_, _)
GetLoop(ps, get) ==
    IF ps = <<>> THEN get
    ELSE LET kv == split(Head(ps), <<"=">>)
         IN  IF Len(kv) # 2 THEN GetLoop(Tail(ps), get)
             ELSE GetLoop(Tail(ps), dict_update(get, {<<kv[1], unquote(kv[2])>>}))

parse_get_vars(data) ==
    IF data = <<>> THEN {} ELSE GetLoop(split(data, <<"&">>), {})

\* a value of the post mapping: one string, or the list of the strings given
\* for a repeated key
One(v) == [list |-> FALSE, items |-> <<v>>]
Many(vs) == [list |-> TRUE, items |-> vs]
ValueAt(post, k) == (CHOOSE e \in post : e[1] = k)[2]

\* the loop of parse_post_vars over the pieces ps
RECURSIVE PostLoop(_, _)
PostLoop(ps, post) ==
    IF ps = <<>> THEN post
    ELSE LET parts == split(Head(ps), <<"=">>)
             vals == [i \in 1..Len(parts) |-> unquote(spc(parts[i]))]
         IN  IF Len(vals) # 2 THEN PostLoop(Tail(ps), post)
             ELSE LET k == vals[1]
                      v == vals[2]
                  IN  IF ~HasKey(post, k)
                      THEN PostLoop(Tail(ps), post \cup {<<k, One(v)>>})
                      ELSE PostLoop(Tail(ps),
                             dict_update(post,
                               {<<k, Many(Append(ValueAt(post, k).items, v))>>}))

parse_post_vars(data) == PostLoop(split(data, <<"&">>), {})

\* the loop of parse_cookie_data over the pieces ps
RECURSIVE CookieLoop(_, _)
CookieLoop(ps, cookies) ==
    IF ps = <<>> THEN cookies
    ELSE LET kv == split(Head(ps), <<"=">>)
         IN  IF Len(kv) # 2 THEN CookieLoop(Tail(ps), cookies)
             ELSE CookieLoop(Tail(ps), dict_update(cookies, {<<kv[1], kv[2]>>}))

parse_cookie_data(data) == CookieLoop(split(data, <<";", " ">>), {})

\* int(x) for a string x
IsInt(x) == Len(x) = 1 /\ x[1] \in Digits
int(x) == CHOOSE n \in 0..9 : ToString(n) = x[1]

\* wsgi.input.read(n)
read(body, n) == SubSeq(body, 1, IF n < Len(body) THEN n ELSE Len(body))

\* RequestHandler.get_args
get_args(env) ==
    IF ~env.QUERY_STRING.present
    THEN [raised |-> TRUE, exc |-> "KeyError", ret |-> {}]
    ELSE [raised |-> FALSE, exc |-> None, ret |-> parse_get_vars(env.QUERY_STRING.val)]

\* RequestHandler.post_args
post_args(env) ==
    IF env.REQUEST_METHOD # "POST"
    THEN [raised |-> FALSE, exc |-> None, ret |-> {}]
    ELSE IF ~env.CONTENT_LENGTH.present
    THEN [raised |-> TRUE, exc |-> "KeyError", ret |-> {}]
    ELSE IF ~IsInt(env.CONTENT_LENGTH.val)
    THEN [raised |-> TRUE, exc |-> "ValueError", ret |-> {}]
    ELSE [raised |-> FALSE, exc |-> None,
          ret |-> parse_post_vars(read(env.wsgi_input, int(env.CONTENT_LENGTH.val)))]

\* RequestHandler.cookies
cookies(env) ==
    IF ~env.HTTP_COOKIE.present
    THEN \* KeyError, caught by the bare except
         [raised |-> FALSE, exc |-> None, ret |-> {}]
    ELSE [raised |-> FALSE, exc |-> None, ret |-> parse_cookie_data(env.HTTP_COOKIE.val)]

\* a request that carries neither query string, body length nor cookies
BareEnv ==
    [REQUEST_METHOD |-> "GET", QUERY_STRING |-> Missing, CONTENT_LENGTH |-> Missing,
     wsgi_input |-> <<>>, HTTP_COOKIE |-> Missing]

ContentLengths ==
    {Missing, Key(<<>>), Key(<<"a">>)} \cup {Key(<<ToString(n)>>) : n \in 0..MaxArgLen}

ArgEnvs ==
    {[BareEnv EXCEPT !.QUERY_STRING = Key(q)] : q \in Strings(ArgChars)}
    \cup {[BareEnv EXCEPT !.REQUEST_METHOD = m, !.CONTENT_LENGTH = l, !.wsgi_input = b] :
            m \in Methods, l \in ContentLengths, b \in Strings(ArgChars)}
    \cup {[BareEnv EXCEPT !.HTTP_COOKIE = Key(c)] : c \in Strings(CookieChars)}

\* a handler has been constructed for a request with environment env
InitArgs ==
    /\ routes = <<>>
    /\ last \in {[op |-> "request", env |-> env] : env \in ArgEnvs}
    /\ hnd = NoHandler
    /\ calls = <<>>
    /\ sess = NoSession
    /\ store = NoStore
    /\ written = {}

\* the handler reads self.get_args
GetArgs ==
    /\ last' = [op |-> "get_args", env |-> last.env] @@ get_args(last.env)
    /\ UNCHANGED <<routes, hnd, calls, sess, store, written>>

\* the handler reads self.post_args
PostArgs ==
    /\ last' = [op |-> "post_args", env |-> last.env] @@ post_args(last.env)
    /\ UNCHANGED <<routes, hnd, calls, sess, store, written>>

\* the handler reads self.cookies
Cookies ==
    /\ last' = [op |-> "cookies", env |-> last.env] @@ cookies(last.env)
    /\ UNCHANGED <<routes, hnd, calls, sess, store, written>>

NextArgs == GetArgs \/ PostArgs \/ Cookies

SpecArgs == InitArgs /\ [][NextArgs]_vars

\* C19: get_args, post_args and cookies do not raise, and each returns an
\* empty mapping when what it parses is not there: no query string, a method
\* other than POST, a POST without Content-Length, no Cookie header.
C19_AccessorsNeverRaise ==
    /\ last.op \in {"get_args", "post_args", "cookies"} => ~last.raised
    /\ (last.op = "get_args"
        /\ (~last.env.QUERY_STRING.present \/ last.env.QUERY_STRING.val = <<>>))
       => last.ret = {}
    /\ (last.op = "post_args"
        /\ (last.env.REQUEST_METHOD # "POST" \/ ~last.env.CONTENT_LENGTH.present))
       => last.ret = {}
    /\ (last.op = "cookies" /\ ~last.env.HTTP_COOKIE.present) => last.ret = {}

\* ------------------------------------------------------------------------
\* The steps of one __call__, as its trace records them
\* ------------------------------------------------------------------------
\* the positions of event ev in trace tr
Events(tr, ev) == {i \in 1..Len(tr) : tr[i] = ev}

\* the steps of a dispatch in which nothing is raised, in order
StepOrder == <<"find_route", "construct", "verb", "save", "callback", "return">>

StepOf(ev) == CHOOSE i \in 1..Len(StepOrder) : StepOrder[i] = ev

\* C21: a request loads its session from the store lazily: not while the
\* handler and its session are constructed, once when the verb method first
\* reads the session, and not at all when it never reads it.
C21_LazyLoad ==
    (IsCall /\ last.session.exists)
    => IF last.invoked /\ VerbOf(last.env).kind = "read"
       THEN /\ Cardinality(Events(last.trace, "load")) = 1
            /\ \A i \in Events(last.trace, "load"), j \in Events(last.trace, "verb") : j < i
       ELSE Events(last.trace, "load") = {}

\* C22: when the store's save fails at the end of execute, the failure is
\* swallowed: the response has the status and the body that the handler
\* produced.
C22_SaveFailureSwallowed ==
    (IsCall /\ Events(last.trace, "save") # {} /\ last.caught # None)
    => /\ last.outcome = "returned"
       /\ Len(last.callbacks) = 1
       /\ last.callbacks[1].status = code_to_status(IntStatus(200))
       /\ last.body = ListBody(<<VerbOf(last.env).body>>)

\* C23: in a dispatch that raises nothing the steps are, in this order: route
\* resolved, handler constructed, verb method invoked, session.save() called
\* (when the handler has a session), start callback called, body returned.
C23_StepOrder ==
    (IsCall /\ last.outcome = "returned" /\ last.caught = None)
    => LET tr == last.trace
       IN  /\ \A i \in 1..Len(tr) : \E k \in 1..Len(StepOrder) : tr[i] = StepOrder[k]
           /\ \A i, j \in 1..Len(tr) : i < j => StepOf(tr[i]) < StepOf(tr[j])
           /\ \A ev \in {"find_route", "construct", "verb", "callback", "return"} :
                  Events(tr, ev) # {}
           /\ Events(tr, "save") # {} <=> last.session.exists

\* a dispatch of a handler with a session has returned its body (C23)
C23_Witness ==
    /\ IsCall
    /\ last.outcome = "returned"
    /\ last.caught = None
    /\ last.session.exists
    /\ Events(last.trace, "save") # {}
    /\ Len(last.callbacks) = 1

\* C24: every __call__ calls the start callback exactly once, and before it
\* returns the body iterator.
C24_CallbackOnce ==
    IsCall
    => /\ Len(last.callbacks) = 1
       /\ Cardinality(Events(last.trace, "callback")) = 1
       /\ \A i \in Events(last.trace, "callback"), j \in Events(last.trace, "return") : i < j

====
